---- MODULE Spec2Model ----
(***************************************************************************)
(* Topic taxonomy engine of abs2paper: the three topic stores (gen_topic,  *)
(* middle_topic, topic), the merge-suggestion parser, the code merge of     *)
(* TopicManager.update_topics_from_merge and the `gen_topics full` pass.    *)
(*                                                                          *)
(* Representation.  A store is the JSON object "topics" of its file: a      *)
(* sequence of entries in insertion order (Python dicts and json keep it).  *)
(* An id is the number its decimal string denotes (ids below 10, so one     *)
(* digit each).  A name is a number: the Chinese name of topic word n is n, *)
(* its English name is n + EnOffset, the raw LLM line                       *)
(* "n，Keywords: n" is n + RawOffset.  aliases is held as the set of its    *)
(* members, because the code rebuilds it with list(set(...)), whose order   *)
(* is not defined.  merged_to = 0 stands for an absent "merged_to" key,     *)
(* status "none" for an absent "status" key.                                *)
(***************************************************************************)
EXTENDS Integers, Sequences, FiniteSets, TLC

\* ---- bounds of the model ------------------------------------------------
MaxId == 3        \* a response line names ids 1..MaxId
MaxLines == 2     \* lines of one LLM merge response
MaxName == 2      \* topic words the LLM may propose: 1..MaxName
MaxPapers == 1    \* abstracts processed by one extract stage
MaxNew == 2       \* new topic lines of one propose response (SpecPropose)
MaxProposals == 2 \* abstracts of one extract stage (SpecPropose)
MaxMapped == 2     \* summary types mapped to one paper section (SpecContext)
MaxCtxHits == 2    \* hits step 1 stores under one type (SpecContext)
MaxTrends == 1     \* trends, and patterns, of one insight (SpecContext)

EnOffset == 10
RawOffset == 20

VARIABLES
    topic_ori,          \* data/topic_ori.json, the template (never written)
    topic,              \* data/topic.json
    gen_topic,          \* data/gen_topic.json
    middle_topic,       \* data/middle_topic.json
    merge_LLM_result,   \* output/merge_LLM_result: the lines of the last response
    merge_opinion,      \* merge_opinion.json: the parsed suggestions
    topics_mem,         \* TopicManager.topics of the running process
    pc,                 \* position of main(): start, init_tm, extract, gen, upd, done, exit1
    round,              \* merge round of execute_merge_cycles being executed, 0 before
    papers,             \* abstracts already processed by the extract stage
    gen,                \* record of the last generate_merge_suggestions call
    upd,                \* record of the last update_topics_from_merge call
    work,               \* a working map of update_topics_from_merge and one suggestion
    lookup,             \* the frame of one get_effective_topic_id call
    other,              \* the files and memory of a second `gen_topics full` pass
    paper,              \* one generate_paper_sequentially call of PaperGenerator
    retr,               \* one retrieve_relevant_summaries call of SummaryRetriever
    source,             \* the paper_sections collection and one step-3 selection
    concl,              \* one conclude_paper and save_results of SectionConcluder
    match,              \* one paper of SectionMatcher.process_directory
    embed,              \* one get_embedding call and the section ingest around it
    contexts,           \* one build_structured_contexts call of ContextBuilder
    retry               \* the stores around a repeated `gen_topics update`

\* what a single `gen_topics full` pass does not touch
auxvars == <<work, lookup, other, paper, retr, source, concl, match, embed,
             contexts, retry>>

vars == <<topic_ori, topic, gen_topic, middle_topic, merge_LLM_result, merge_opinion,
          topics_mem, pc, round, papers, gen, upd, work, lookup, other, paper, retr,
          source, concl, match, embed, contexts, retry>>

\* ---- entries and stores -------------------------------------------------
NewEntry(i, zh, en, al, st) ==
    [id |-> i, name_zh |-> zh, name_en |-> en, aliases |-> al,
     merged |-> FALSE, merged_to |-> 0, status |-> st]

Ids(T) == {T[k].id : k \in DOMAIN T}
Idx(T, i) == CHOOSE k \in DOMAIN T : T[k].id = i
Get(T, i) == T[Idx(T, i)]

SetMax(S) == IF S = {} THEN 0 ELSE CHOOSE m \in S : \A x \in S : x <= m

\* ---- the merge response and its parser ----------------------------------
\* A response is a sequence of lines joined by "\n".  Line shapes:
\*   "upd"    更新并合并 a -> b
\*   "mrg"    合并 a -> b
\*   "noneed" 无需合并
LineKinds == {"upd", "mrg"}
Lines == [kind : LineKinds, a : 1..MaxId, b : 1..MaxId]
NoNeed == [kind |-> "noneed", a |-> 0, b |-> 0]

RECURSIVE SeqsUpTo(_, _)
SeqsUpTo(S, n) ==
    IF n = 0 THEN {<<>>}
    ELSE LET shorter == SeqsUpTo(S, n - 1)
         IN shorter \cup {Append(q, x) : q \in {r \in shorter : Len(r) = n - 1}, x \in S}

Responses == SeqsUpTo(Lines, MaxLines) \cup {<<NoNeed>>}

Sugg(s, t, ty) == [source |-> s, target |-> t, type |-> ty]

\* `(source, target, "update_merge") not in merge_suggestions`
HasTriple(acc, s, t, ty) == \E k \in DOMAIN acc : acc[k] = Sugg(s, t, ty)
\* `any(s == source and t == target for s, t, _ in merge_suggestions)`
HasPair(acc, s, t) == \E k \in DOMAIN acc : acc[k].source = s /\ acc[k].target = t

\* re.findall of each pattern over the response: the matching lines, in text order.
\* update_pattern  更新并合并\s*(\d+)\s*[-–]>\s*(\d+)
UpdateMatches(resp) == SelectSeq(resp, LAMBDA l : l.kind = "upd")
\* pattern1  (?<!更新并)合并\s*(\d+)\s*[-–]>\s*(\d+)
Matches1(resp) == SelectSeq(resp, LAMBDA l : l.kind = "mrg")
\* pattern2  \d+\.?\s*合并\s*(\d+)\s*[-–]>\s*(\d+): a 合并 line whose preceding line
\* ends in a digit that no earlier match of this pattern has consumed.
RECURSIVE Match2At(_, _)
Match2At(resp, j) ==
    /\ j > 1
    /\ resp[j].kind = "mrg"
    /\ resp[j - 1].kind # "noneed"
    /\ ~Match2At(resp, j - 1)
Matches2(resp) ==
    LET hit == {j \in DOMAIN resp : Match2At(resp, j)}
        RECURSIVE Pick(_)
        Pick(j) == IF j > Len(resp) THEN <<>>
                   ELSE IF j \in hit THEN <<resp[j]>> \o Pick(j + 1) ELSE Pick(j + 1)
    IN Pick(1)
\* pattern3  合并\s*(\d+)\s*[-–]>\s*(\d+)[,，] and pattern5  \d+\.合并(\d+)[-–]>(\d+):
\* no line shape above carries a trailing comma or the form without blanks.
Matches3(resp) == SelectSeq(resp, LAMBDA l : FALSE)
Matches5(resp) == SelectSeq(resp, LAMBDA l : FALSE)
\* pattern4  (\d+)\s*[-–]>\s*(\d+): every line with an arrow
Matches4(resp) == SelectSeq(resp, LAMBDA l : l.kind \in LineKinds)

\* re.search(更新[^。]*{source}\s*[-–]>\s*{target}): some 更新 with "source -> target"
\* later in the text, newlines included.
Context4(resp, s, t) ==
    \E i, j \in DOMAIN resp :
        /\ i <= j
        /\ resp[i].kind = "upd"
        /\ resp[j].kind \in LineKinds /\ resp[j].a = s /\ resp[j].b = t

RECURSIVE AddUpdate(_, _)
AddUpdate(acc, ms) ==
    IF ms = <<>> THEN acc
    ELSE LET m == Head(ms)
         IN AddUpdate(IF HasTriple(acc, m.a, m.b, "update_merge") THEN acc
                      ELSE Append(acc, Sugg(m.a, m.b, "update_merge")),
                      Tail(ms))

\* the loops of patterns 1, 3 and 5: append as "merge" unless the pair is present
RECURSIVE AddMerge(_, _)
AddMerge(acc, ms) ==
    IF ms = <<>> THEN acc
    ELSE LET m == Head(ms)
         IN AddMerge(IF HasPair(acc, m.a, m.b) THEN acc
                     ELSE Append(acc, Sugg(m.a, m.b, "merge")),
                     Tail(ms))

RECURSIVE AddArrow(_, _, _)
AddArrow(acc, ms, resp) ==
    IF ms = <<>> THEN acc
    ELSE LET m == Head(ms)
             ty == IF Context4(resp, m.a, m.b) THEN "update_merge" ELSE "merge"
         IN AddArrow(IF HasPair(acc, m.a, m.b) THEN acc
                     ELSE Append(acc, Sugg(m.a, m.b, ty)),
                     Tail(ms), resp)

parse_merge_suggestions(resp) ==
    IF \E k \in DOMAIN resp : resp[k].kind = "noneed" THEN <<>>
    ELSE LET s0 == AddUpdate(<<>>, UpdateMatches(resp))
             s1 == AddMerge(s0, Matches1(resp))
             \* pattern2's pairs are pairs of 合并 lines, which pattern1 has already
             \* put in the list: the test of line 774 fails for each of them, so the
             \* type computed from the context (lines 765-772) never reaches the list.
             s2 == AddMerge(s1, Matches2(resp))
             s3 == AddMerge(s2, Matches3(resp))
             s4 == AddArrow(s3, Matches4(resp), resp)
             s5 == AddMerge(s4, Matches5(resp))
         IN s5

\* ---- the code merge (first phase of update_topics_from_merge) -----------
\* an absorb that also hands the source's names to the target and back
ApplyMergeExchanging(T, a, b) ==
    LET source_topic == Get(T, a)
        target_topic == Get(T, b)
        T1 == [T EXCEPT ![Idx(T, b)].aliases =
                            @ \cup {source_topic.name_zh, source_topic.name_en},
                        ![Idx(T, b)].name_zh = source_topic.name_zh,
                        ![Idx(T, b)].name_en = source_topic.name_en]
    IN [T1 EXCEPT ![Idx(T, a)].name_zh = target_topic.name_zh,
                  ![Idx(T, a)].name_en = target_topic.name_en,
                  ![Idx(T, a)].merged = TRUE,
                  ![Idx(T, a)].status = "merged",
                  ![Idx(T, a)].merged_to = b]

\* merge_type == "merge", lines 1121-1137
ApplyMerge(T, a, b) ==
    LET source_topic == Get(T, a)
        T1 == [T EXCEPT ![Idx(T, b)].aliases =
                            @ \cup {source_topic.name_zh, source_topic.name_en}]
    IN [T1 EXCEPT ![Idx(T, a)].merged = TRUE,
                  ![Idx(T, a)].status = "merged",
                  ![Idx(T, a)].merged_to = b]

\* merge_type == "update_merge", lines 1139-1168
ApplyUpdateMerge(T, a, b) ==
    LET source_topic == Get(T, a)
        original_target_content == Get(T, b)
        T1 == [T EXCEPT ![Idx(T, b)].name_zh = source_topic.name_zh,
                        ![Idx(T, b)].name_en = source_topic.name_en,
                        ![Idx(T, b)].aliases = source_topic.aliases]
    IN [T1 EXCEPT ![Idx(T, a)].name_zh = original_target_content.name_zh,
                  ![Idx(T, a)].name_en = original_target_content.name_en,
                  ![Idx(T, a)].aliases = original_target_content.aliases,
                  ![Idx(T, a)].merged = TRUE,
                  ![Idx(T, a)].status = "merged",
                  ![Idx(T, a)].merged_to = b]

\* one iteration of the loop of line 1119
ApplyOne(T, sg) ==
    IF sg.source \in Ids(T) /\ sg.target \in Ids(T)
    THEN IF sg.type = "merge" THEN ApplyMerge(T, sg.source, sg.target)
         ELSE ApplyUpdateMerge(T, sg.source, sg.target)
    ELSE T

\* the working map after 0, 1, ..., Len(suggs) iterations
RECURSIVE ApplyTrace(_, _)
ApplyTrace(T, suggs) ==
    IF suggs = <<>> THEN <<T>>
    ELSE <<T>> \o ApplyTrace(ApplyOne(T, Head(suggs)), Tail(suggs))

\* Renumber without the counter: every live entry keeps its old id.
RenumberKeepIds(T, st) ==
    LET live == SelectSeq(T, LAMBDA e : ~e.merged)
    IN [k \in 1..Len(live) |->
            NewEntry(live[k].id, live[k].name_zh, live[k].name_en, live[k].aliases, st)]

\* ---- second phase: renumber into the target -----------------------------
\* the loop of lines 971-990 and 1032-1052: entries not marked merged, in the
\* iteration order of the map, get the ids 1, 2, 3, ...
Renumber(T, st) ==
    LET live == SelectSeq(T, LAMBDA e : ~e.merged)
    IN [k \in 1..Len(live) |->
            NewEntry(k, live[k].name_zh, live[k].name_en, live[k].aliases, st)]

_finalize_merge_to_middle(T) == Renumber(T, "pending")
_finalize_merge_to_topic_json(T) == Renumber(T, "none")

\* ---- propose: TopicExtractor._save_generated_topics ---------------------
\* The parser of the propose response returns lines "zh，Keywords: en"; the topic
\* word n stands for the line whose parts are n and n + EnOffset.
NewTopicLists == {<<>>} \cup {<<n>> : n \in 1..MaxName}

RECURSIVE AppendNew(_, _, _)
AppendNew(generated, new_topics, next_id) ==
    IF new_topics = <<>> THEN generated
    ELSE LET t == Head(new_topics)
             exists == \E k \in DOMAIN generated :
                            \/ generated[k].name_zh = t + RawOffset
                            \/ (t + RawOffset) \in generated[k].aliases
         IN IF exists THEN AppendNew(generated, Tail(new_topics), next_id)
            ELSE AppendNew(Append(generated,
                                  NewEntry(next_id, t, t + EnOffset, {}, "pending")),
                           Tail(new_topics), next_id + 1)

\* _save_generated_topics numbering from max_id instead of max_id + 1
_save_generated_topics_at_max(generated, mem, new_topics) ==
    LET max_id == SetMax(Ids(mem) \cup Ids(generated))
    IN AppendNew(generated, new_topics, max_id)

_save_generated_topics(generated, mem, new_topics) ==
    LET max_id == SetMax(Ids(mem) \cup Ids(generated))
    IN AppendNew(generated, new_topics, max_id + 1)

\* ---- the call records ---------------------------------------------------
NoGen == [called |-> FALSE, source |-> "none", listed |-> {}, ok |-> TRUE]
NoUpd == [called |-> FALSE, round |-> 0, target |-> "none", source |-> "none",
          suggs |-> <<>>, trace |-> <<>>, renumbered |-> FALSE, ret |-> FALSE]

\* execute_merge_cycles with every round promoting to topic
RoundTargetAlwaysTopic(r) == "topic"

\* execute_merge_cycles: the arguments of the three rounds
RoundSource(r) == IF r = 1 THEN "gen_topic" ELSE "middle_topic"
RoundTarget(r) == IF r = 3 THEN "topic" ELSE "middle_topic"

\* ---- the template and the initial disk ----------------------------------
\* an alias of the template that is no topic's name
AliasWord == MaxName + 1 + RawOffset + EnOffset

OriTemplates ==
    { <<NewEntry(1, 1, 1 + EnOffset, {}, "none")>>,
      <<NewEntry(2, 2, 2 + EnOffset, {AliasWord}, "none"),
        NewEntry(1, 1, 1 + EnOffset, {}, "none")>> }

WithStatus(T, st) == [k \in DOMAIN T |-> [T[k] EXCEPT !.status = st]]

\* no such call in progress
NoWork == [called |-> FALSE]
NoLookup == [called |-> FALSE]
NoOther == [called |-> FALSE]
NoPaper == [called |-> FALSE]
NoRetr == [called |-> FALSE]
NoSource == [called |-> FALSE]
NoConcl == [called |-> FALSE]
NoMatch == [called |-> FALSE]
NoEmbed == [called |-> FALSE]
NoContexts == [called |-> FALSE]
NoRetry == [called |-> FALSE]
\* all of them idle but the named one
AuxIdleBut(name) ==
    /\ IF name = "work" THEN TRUE ELSE work = NoWork
    /\ IF name = "lookup" THEN TRUE ELSE lookup = NoLookup
    /\ IF name = "other" THEN TRUE ELSE other = NoOther
    /\ IF name = "paper" THEN TRUE ELSE paper = NoPaper
    /\ IF name = "retr" THEN TRUE ELSE retr = NoRetr
    /\ IF name = "source" THEN TRUE ELSE source = NoSource
    /\ IF name = "concl" THEN TRUE ELSE concl = NoConcl
    /\ IF name = "match" THEN TRUE ELSE match = NoMatch
    /\ IF name = "embed" THEN TRUE ELSE embed = NoEmbed
    /\ IF name = "contexts" THEN TRUE ELSE contexts = NoContexts
    /\ IF name = "retry" THEN TRUE ELSE retry = NoRetry
AuxUnchangedBut(name) ==
    /\ IF name = "work" THEN TRUE ELSE UNCHANGED work
    /\ IF name = "lookup" THEN TRUE ELSE UNCHANGED lookup
    /\ IF name = "other" THEN TRUE ELSE UNCHANGED other
    /\ IF name = "paper" THEN TRUE ELSE UNCHANGED paper
    /\ IF name = "retr" THEN TRUE ELSE UNCHANGED retr
    /\ IF name = "source" THEN TRUE ELSE UNCHANGED source
    /\ IF name = "concl" THEN TRUE ELSE UNCHANGED concl
    /\ IF name = "match" THEN TRUE ELSE UNCHANGED match
    /\ IF name = "embed" THEN TRUE ELSE UNCHANGED embed
    /\ IF name = "contexts" THEN TRUE ELSE UNCHANGED contexts
    /\ IF name = "retry" THEN TRUE ELSE UNCHANGED retry
AuxIdle == AuxIdleBut("none")

\* The disk when the command starts: the state reset_data_files leaves, or that
\* state with the middle_topic.json an earlier invocation left when it stopped
\* after a first round without suggestions (update_topics_from_merge, line 1112).
Init ==
    /\ topic_ori \in OriTemplates
    /\ topic = topic_ori
    /\ gen_topic = WithStatus(topic_ori, "pending")
    /\ middle_topic \in {<<>>, gen_topic}
    /\ merge_LLM_result = <<>>
    /\ merge_opinion = <<>>
    /\ topics_mem = <<>>
    /\ pc = "start"
    /\ round = 0
    /\ papers = 0
    /\ gen = NoGen
    /\ upd = NoUpd
    /\ AuxIdle

\* ---- main(), command full -----------------------------------------------
\* the files and the memory a pass reads and writes
Disk ==
    [topic |-> topic, gen_topic |-> gen_topic, middle_topic |-> middle_topic,
     merge_LLM_result |-> merge_LLM_result, merge_opinion |-> merge_opinion,
     topics_mem |-> topics_mem]

\* a reset that leaves middle_topic.json as it is
reset_data_files_but_middle(d, ori) ==
    [d EXCEPT !.topic = ori, !.gen_topic = WithStatus(ori, "pending"),
              !.merge_opinion = <<>>]

\* reset_data_files, lines 36-130, on the files d with the template ori
\* (merge_LLM_result is not among the files reset)
reset_data_files(d, ori) ==
    [d EXCEPT !.topic = ori, !.gen_topic = WithStatus(ori, "pending"),
              !.merge_opinion = <<>>, !.middle_topic = <<>>]

\* main without --no-reset
DoResetDataFiles ==
    /\ pc = "start"
    /\ LET r == reset_data_files(Disk, topic_ori)
       IN /\ topic' = r.topic
          /\ gen_topic' = r.gen_topic
          /\ merge_opinion' = r.merge_opinion
          /\ middle_topic' = r.middle_topic
          /\ merge_LLM_result' = r.merge_LLM_result
          /\ topics_mem' = r.topics_mem
    /\ pc' = "init_tm"
    /\ UNCHANGED <<topic_ori, round, papers, gen, upd>>

ResetDataFiles ==
    /\ DoResetDataFiles
    /\ UNCHANGED auxvars

\* main with --no-reset
SkipReset ==
    /\ pc = "start"
    /\ UNCHANGED auxvars
    /\ pc' = "init_tm"
    /\ UNCHANGED <<topic_ori, topic, gen_topic, middle_topic, merge_LLM_result,
                   merge_opinion, topics_mem, round, papers, gen, upd>>

\* load_topics: Topic objects keep no merged/status key
load_topics(T) ==
    [k \in DOMAIN T |->
        NewEntry(T[k].id, T[k].name_zh, T[k].name_en, T[k].aliases, "none")]

\* TopicManager.__init__
DoTopicManagerInit ==
    /\ pc = "init_tm"
    /\ topics_mem' = load_topics(topic)
    /\ pc' = "extract"
    /\ UNCHANGED <<topic_ori, topic, gen_topic, middle_topic, merge_LLM_result,
                   merge_opinion, round, papers, gen, upd>>

TopicManagerInit ==
    /\ DoTopicManagerInit
    /\ UNCHANGED auxvars

\* the body of the loop of extract_initial_topics for one paper, lines 72-98:
\* gen_topic.json after it; a failed LLM call yields no new topic
Proposed(generated, mem, new_topics) ==
    IF new_topics = <<>> THEN generated
    ELSE _save_generated_topics(generated, mem, new_topics)

ProposeStep(lists) ==
    \E new_topics \in lists :
        gen_topic' = Proposed(gen_topic, topics_mem, new_topics)

\* extract_initial_topics: one paper, the LLM naming new_topics
DoExtractPaper(new_topics) ==
    /\ pc = "extract"
    /\ papers < MaxPapers
    /\ gen_topic' = Proposed(gen_topic, topics_mem, new_topics)
    /\ papers' = papers + 1
    /\ UNCHANGED <<topic_ori, topic, middle_topic, merge_LLM_result, merge_opinion,
                   topics_mem, pc, round, gen, upd>>

ExtractPaper ==
    /\ \E new_topics \in NewTopicLists : DoExtractPaper(new_topics)
    /\ UNCHANGED auxvars

DoExtractDone ==
    /\ pc = "extract"
    /\ pc' = "gen"
    /\ round' = 1
    /\ papers' = 0
    /\ UNCHANGED <<topic_ori, topic, gen_topic, middle_topic, merge_LLM_result,
                   merge_opinion, topics_mem, gen, upd>>

ExtractDone ==
    /\ DoExtractDone
    /\ UNCHANGED auxvars

SourceStore(name) == IF name = "gen_topic" THEN gen_topic ELSE middle_topic

\* generate_merge_suggestions, lines 228-322, the LLM answering resp
DoGenerateOk(resp) ==
    /\ pc = "gen"
    /\ merge_LLM_result' = resp
    /\ merge_opinion' = parse_merge_suggestions(resp)
    /\ gen' = [called |-> TRUE, source |-> RoundSource(round),
               listed |-> Ids(SourceStore(RoundSource(round))), ok |-> TRUE]
    /\ upd' = NoUpd
    /\ pc' = "upd"
    /\ UNCHANGED <<topic_ori, topic, gen_topic, middle_topic, topics_mem, round,
                   papers>>

GenerateOk ==
    /\ \E resp \in Responses : DoGenerateOk(resp)
    /\ UNCHANGED auxvars

\* generate_merge_suggestions with get_completion returning None (llm_client.py
\* 59-67): open(merge_LLM_result, 'w') empties the file, f.write(None) raises
\* TypeError, which leaves execute_merge_cycles and reaches sys.exit(1) in main.
DoGenerateFail ==
    /\ pc = "gen"
    /\ merge_LLM_result' = <<>>
    /\ gen' = [called |-> TRUE, source |-> RoundSource(round),
               listed |-> Ids(SourceStore(RoundSource(round))), ok |-> FALSE]
    /\ upd' = NoUpd
    /\ pc' = "exit1"
    /\ UNCHANGED <<topic_ori, topic, gen_topic, middle_topic, merge_opinion,
                   topics_mem, round, papers>>

GenerateFail ==
    /\ DoGenerateFail
    /\ UNCHANGED auxvars

\* update_topics_from_merge(target, use_code_merge=True), lines 1081-1186, on the
\* files d in round rnd
UpdatedStoresOf(d, rnd, target) ==
    LET src == IF d.middle_topic # <<>> THEN "middle_topic" ELSE "gen_topic"
        source_topics == IF src = "gen_topic" THEN d.gen_topic ELSE d.middle_topic
        suggs == parse_merge_suggestions(d.merge_LLM_result)
        trace == ApplyTrace(source_topics, suggs)
        T == trace[Len(trace)]
        base == [called |-> TRUE, round |-> rnd, target |-> target, source |-> src,
                 suggs |-> suggs, trace |-> trace, renumbered |-> FALSE, ret |-> TRUE]
    IN IF source_topics = <<>>
       THEN [middle |-> d.middle_topic, topic |-> d.topic, mem |-> d.topics_mem,
             call |-> [base EXCEPT !.ret = FALSE]]
       ELSE IF suggs = <<>>
       THEN IF target = "middle_topic"
            THEN [middle |-> source_topics, topic |-> d.topic, mem |-> d.topics_mem,
                  call |-> base]
            ELSE [middle |-> d.middle_topic,
                  topic |-> _finalize_merge_to_topic_json(source_topics),
                  mem |-> _finalize_merge_to_topic_json(source_topics),
                  call |-> [base EXCEPT !.renumbered = TRUE]]
       ELSE IF target = "middle_topic"
            THEN [middle |-> _finalize_merge_to_middle(T), topic |-> d.topic,
                  mem |-> d.topics_mem, call |-> [base EXCEPT !.renumbered = TRUE]]
            ELSE [middle |-> T,
                  topic |-> _finalize_merge_to_topic_json(T),
                  mem |-> _finalize_merge_to_topic_json(T),
                  call |-> [base EXCEPT !.renumbered = TRUE]]

UpdatedStores(target) == UpdatedStoresOf(Disk, round, target)

DoUpdateTopics ==
    /\ pc = "upd"
    /\ LET r == UpdatedStores(RoundTarget(round))
       IN /\ middle_topic' = r.middle
          /\ topic' = r.topic
          /\ topics_mem' = r.mem
          /\ upd' = r.call
    /\ IF round < 3
       THEN pc' = "gen" /\ round' = round + 1
       ELSE pc' = "done" /\ round' = round
    /\ UNCHANGED <<topic_ori, gen_topic, merge_LLM_result, merge_opinion, papers,
                   gen>>

UpdateTopics ==
    /\ DoUpdateTopics
    /\ UNCHANGED auxvars

Next ==
    \/ ResetDataFiles
    \/ SkipReset
    \/ TopicManagerInit
    \/ ExtractPaper
    \/ ExtractDone
    \/ GenerateOk
    \/ GenerateFail
    \/ UpdateTopics

Spec == Init /\ [][Next]_vars

\* ---- a pass over a template without topics -----------------------------
\* topic_ori.json holding an empty "topics" object: the stores start empty and
\* hold only what the extract stage proposes
InitBare ==
    /\ topic_ori = <<>>
    /\ topic = <<>>
    /\ gen_topic = <<>>
    /\ middle_topic = <<>>
    /\ merge_LLM_result = <<>>
    /\ merge_opinion = <<>>
    /\ topics_mem = <<>>
    /\ pc = "start"
    /\ round = 0
    /\ papers = 0
    /\ gen = NoGen
    /\ upd = NoUpd
    /\ AuxIdle

SpecBare == InitBare /\ [][Next]_vars

\* ---- the extract stage alone (command extract) --------------------------
\* the new-topic lists of one response: up to MaxNew lines
ProposedLists == SeqsUpTo(1..MaxName, MaxNew)

\* a topic.json a finished pass has left: n renumbered entries
StableStore(n) == [k \in 1..n |-> NewEntry(k, k, k + EnOffset, {}, "none")]

\* The extract stage starts with TopicManager loaded from topic.json (the template,
\* the result of an earlier pass, or no file) and gen_topic.json as reset left it
\* or absent (load_generated_topics, line 653).
InitPropose ==
    /\ topic_ori \in OriTemplates
    /\ topic \in {topic_ori} \cup {StableStore(n) : n \in 0..MaxId}
    /\ gen_topic \in {<<>>, WithStatus(topic_ori, "pending")}
    /\ middle_topic = <<>>
    /\ merge_LLM_result = <<>>
    /\ merge_opinion = <<>>
    /\ topics_mem = topic
    /\ pc = "extract"
    /\ round = 0
    /\ papers = 0
    /\ gen = NoGen
    /\ upd = NoUpd
    /\ AuxIdle

\* extract_initial_topics: one paper of the list of abstracts
ProposePaper ==
    /\ pc = "extract"
    /\ UNCHANGED auxvars
    /\ papers < MaxProposals
    /\ ProposeStep(ProposedLists)
    /\ papers' = papers + 1
    /\ UNCHANGED <<topic_ori, topic, middle_topic, merge_LLM_result, merge_opinion,
                   topics_mem, pc, round, gen, upd>>

\* extract_from_papers returns
ProposeDone ==
    /\ pc = "extract"
    /\ UNCHANGED auxvars
    /\ pc' = "done"
    /\ UNCHANGED <<topic_ori, topic, gen_topic, middle_topic, merge_LLM_result,
                   merge_opinion, topics_mem, round, papers, gen, upd>>

NextPropose ==
    \/ ProposePaper
    \/ ProposeDone

SpecPropose == InitPropose /\ [][NextPropose]_vars

\* ---- the stage `gen_topics full` idle -----------------------------------
TopicIdle ==
    /\ topic_ori = <<>>
    /\ topic = <<>>
    /\ gen_topic = <<>>
    /\ middle_topic = <<>>
    /\ merge_LLM_result = <<>>
    /\ merge_opinion = <<>>
    /\ topics_mem = <<>>
    /\ pc = "idle"
    /\ round = 0
    /\ papers = 0
    /\ gen = NoGen
    /\ upd = NoUpd

topicvars == <<topic_ori, topic, gen_topic, middle_topic, merge_LLM_result,
               merge_opinion, topics_mem, pc, round, papers, gen, upd>>

\* ---- a pass re-run from a cold start ------------------------------------
\* what an earlier invocation can have left in middle_topic.json and in
\* output/merge_LLM_result
StaleMiddles ==
    {<<>>} \cup {ApplyOne(S, Sugg(2, 1, ty)) :
                    S \in {WithStatus(t, "pending") : t \in OriTemplates}
                          \cup {_save_generated_topics(WithStatus(t, "pending"), t, <<1>>) :
                                    t \in OriTemplates},
                    ty \in {"merge", "update_merge"}}
StaleResults == {<<>>, <<NoNeed>>, <<[kind |-> "mrg", a |-> 2, b |-> 1]>>}

\* the files differ from what reset_data_files writes
Stale(d, ori) ==
    \/ d.topic # ori
    \/ d.gen_topic # WithStatus(ori, "pending")
    \/ d.middle_topic # <<>>

\* Two passes over the same template: the pass of the variables starts on files
\* an earlier invocation left changed, the pass of `other` on freshly reset files.
InitRerun ==
    /\ topic_ori \in OriTemplates
    /\ topic \in {topic_ori} \cup {StableStore(n) : n \in 0..MaxId}
    /\ gen_topic \in {<<>>, WithStatus(topic_ori, "pending"),
                      _save_generated_topics(WithStatus(topic_ori, "pending"),
                                             topic_ori, <<1>>)}
    /\ middle_topic \in StaleMiddles
    /\ merge_LLM_result \in StaleResults
    /\ merge_opinion = parse_merge_suggestions(merge_LLM_result)
    /\ topics_mem = <<>>
    /\ Stale(Disk, topic_ori)
    /\ pc = "start"
    /\ round = 0
    /\ papers = 0
    /\ gen = NoGen
    /\ upd = NoUpd
    /\ AuxIdleBut("other")
    /\ other = [called |-> TRUE,
                topic |-> topic_ori, gen_topic |-> WithStatus(topic_ori, "pending"),
                middle_topic |-> <<>>, merge_LLM_result |-> <<>>,
                merge_opinion |-> <<>>, topics_mem |-> <<>>]

\* both passes: reset_data_files
RerunReset ==
    /\ DoResetDataFiles
    /\ other' = reset_data_files(other, topic_ori)
    /\ AuxUnchangedBut("other")

\* both passes: TopicManager()
RerunTopicManagerInit ==
    /\ DoTopicManagerInit
    /\ other' = [other EXCEPT !.topics_mem = load_topics(other.topic)]
    /\ AuxUnchangedBut("other")

\* both passes: one paper, the LLM giving the same answer to both
RerunExtractPaper ==
    /\ \E new_topics \in NewTopicLists :
          /\ DoExtractPaper(new_topics)
          /\ other' = [other EXCEPT
                          !.gen_topic = Proposed(other.gen_topic, other.topics_mem,
                                                 new_topics)]
    /\ AuxUnchangedBut("other")

RerunExtractDone ==
    /\ DoExtractDone
    /\ UNCHANGED auxvars

\* both passes: generate_merge_suggestions, the LLM giving the same answer to both
RerunGenerateOk ==
    /\ \E resp \in Responses :
          /\ DoGenerateOk(resp)
          /\ other' = [other EXCEPT !.merge_LLM_result = resp,
                                    !.merge_opinion = parse_merge_suggestions(resp)]
    /\ AuxUnchangedBut("other")

RerunGenerateFail ==
    /\ DoGenerateFail
    /\ other' = [other EXCEPT !.merge_LLM_result = <<>>]
    /\ AuxUnchangedBut("other")

\* both passes: update_topics_from_merge of the round
RerunUpdateTopics ==
    /\ DoUpdateTopics
    /\ LET r == UpdatedStoresOf(other, round, RoundTarget(round))
       IN other' = [other EXCEPT !.middle_topic = r.middle, !.topic = r.topic,
                                 !.topics_mem = r.mem]
    /\ AuxUnchangedBut("other")

NextRerun ==
    \/ RerunReset
    \/ RerunTopicManagerInit
    \/ RerunExtractPaper
    \/ RerunExtractDone
    \/ RerunGenerateOk
    \/ RerunGenerateFail
    \/ RerunUpdateTopics

SpecRerun == InitRerun /\ [][NextRerun]_vars

\* ---- one suggestion applied to a working map ---------------------------
\* the stores a round can load: the reset gen_topic, or it with one proposal
LoadedStores ==
    LET reset == {WithStatus(t, "pending") : t \in OriTemplates}
    IN reset \cup {_save_generated_topics(g, g, <<n>>) : g \in reset, n \in 1..MaxName}

\* the working maps update_topics_from_merge can hold: a loaded store at any
\* point of the loop of line 1119 over the suggestions of a response
WorkingMaps ==
    UNION {{ApplyTrace(S, parse_merge_suggestions(r))[k] :
                k \in 1..(Len(parse_merge_suggestions(r)) + 1)} :
           S \in LoadedStores, r \in Responses}

InitAbsorb ==
    /\ TopicIdle
    /\ AuxIdleBut("work")
    /\ \E T \in WorkingMaps, a \in 1..MaxId, b \in 1..MaxId :
          work = [called |-> TRUE, map |-> T, a |-> a, b |-> b, n |-> 0,
                  cur |-> T, once |-> T]

\* one iteration of the loop of line 1119 with the suggestion (a, b, "merge")
AbsorbAgain ==
    /\ work.called
    /\ work.n < 2
    /\ LET U == ApplyOne(work.cur, Sugg(work.a, work.b, "merge"))
       IN work' = [work EXCEPT !.n = @ + 1, !.cur = U,
                               !.once = IF work.n = 0 THEN U ELSE @]
    /\ UNCHANGED topicvars
    /\ AuxUnchangedBut("work")

NextAbsorb == AbsorbAgain

SpecAbsorb == InitAbsorb /\ [][NextAbsorb]_vars

\* ---- get_effective_topic_id ---------------------------------------------
\* self.topic_mapping, the "mappings" object load_topics reads from topic.json:
\* any map from old ids to new ids; 0 stands for an id that is no key of it
Mappings == [1..MaxId -> 0..MaxId]
MapKeys(m) == {i \in DOMAIN m : m[i] # 0}

InitLookup ==
    /\ TopicIdle
    /\ AuxIdleBut("lookup")
    /\ \E m \in Mappings, x \in 1..MaxId :
          lookup = [called |-> TRUE, topic_mapping |-> m, topic_id |-> x,
                    current_id |-> x, visited |-> {}, steps |-> 0,
                    at |-> "while", aborted |-> FALSE]

\* the test of line 285 never finding a revisit
InVisitedNever(current_id, visited) == FALSE

\* `if current_id in visited`, line 285
InVisited(current_id, visited) == current_id \in visited

\* the loop body, lines 288-290: remember current_id and follow the mapping
LookupFollow ==
    /\ lookup.called /\ lookup.at = "while"
    /\ lookup.current_id \in MapKeys(lookup.topic_mapping)
    /\ ~InVisited(lookup.current_id, lookup.visited)
    /\ lookup' = [lookup EXCEPT
                      !.visited = @ \cup {lookup.current_id},
                      !.current_id = lookup.topic_mapping[lookup.current_id],
                      !.steps = @ + 1]
    /\ UNCHANGED topicvars
    /\ AuxUnchangedBut("lookup")

\* lines 285-287: current_id was visited before, break and return it
LookupBreak ==
    /\ lookup.called /\ lookup.at = "while"
    /\ lookup.current_id \in MapKeys(lookup.topic_mapping)
    /\ InVisited(lookup.current_id, lookup.visited)
    /\ lookup' = [lookup EXCEPT !.at = "returned", !.aborted = TRUE]
    /\ UNCHANGED topicvars
    /\ AuxUnchangedBut("lookup")

\* line 283 false: current_id is no key of the mapping, return it
LookupReturn ==
    /\ lookup.called /\ lookup.at = "while"
    /\ lookup.current_id \notin MapKeys(lookup.topic_mapping)
    /\ lookup' = [lookup EXCEPT !.at = "returned"]
    /\ UNCHANGED topicvars
    /\ AuxUnchangedBut("lookup")

NextLookup ==
    \/ LookupFollow
    \/ LookupBreak
    \/ LookupReturn

SpecLookup == InitLookup /\ [][NextLookup]_vars

\* ---- PaperGenerator.generate_paper_sequentially -------------------------
\* the number of different texts the LLM can answer with
MaxText == 1
\* the number of different condensed summaries the LLM can answer with
MaxSummary == 2
\* the number of `## ` blocks of a polish answer
MaxBlocks == 2

\* a key that is not in a dict; a header line followed by no line at all
Absent == 0
\* get_completion returning None (LLMClient catches every exception)
None == 0 - 1
\* the empty string
Blank == 0 - 2

\* self.generation_order, lines 29-70
generation_order ==
    << [section |-> "Introduction", dependencies |-> {},
        previous_context_needed |-> FALSE],
       [section |-> "RelatedWork", dependencies |-> {"Introduction"},
        previous_context_needed |-> TRUE],
       [section |-> "Method", dependencies |-> {"Introduction", "RelatedWork"},
        previous_context_needed |-> TRUE],
       [section |-> "Experiments", dependencies |-> {"Method"},
        previous_context_needed |-> TRUE],
       [section |-> "Conclusion",
        dependencies |-> {"Introduction", "RelatedWork", "Method", "Experiments"},
        previous_context_needed |-> TRUE] >>
PaperSections == {generation_order[i].section : i \in DOMAIN generation_order}
NoSections == [s \in PaperSections |-> Absent]
Keys(d) == {k \in DOMAIN d : d[k] # Absent}

\* a generator that never adds the earlier sections to a context
PreviousContextNeverNeeded(step_config) == FALSE

\* step_config.get("previous_context_needed", False), line 169
PreviousContextNeeded(step_config) == step_config.previous_context_needed

\* _build_full_context_for_section, lines 154-193: the summaries it puts into
\* the context, each under the header of its section
ContextSummaries(step_config, section_summaries) ==
    IF PreviousContextNeeded(step_config)
    THEN {<<dep, section_summaries[dep]>> :
              dep \in step_config.dependencies \cap Keys(section_summaries)}
    ELSE {}

\* "\n".join(context_parts), line 193, raises TypeError on a None part
JoinRaises(parts) == \E p \in parts : p[2] = None

InitGenerate ==
    /\ TopicIdle
    /\ AuxIdleBut("paper")
    /\ paper = [called |-> TRUE, step |-> 1, at |-> "draft",
                generated_sections |-> NoSections,
                section_summaries |-> NoSections,
                prompts |-> <<>>, polished_sections |-> <<>>,
                final |-> <<>>]

\* lines 298-319: build the context of the next section, ask the LLM for the
\* draft and store it
DraftSection ==
    /\ paper.called /\ paper.at = "draft"
    /\ LET step == generation_order[paper.step]
           ctx == ContextSummaries(step, paper.section_summaries)
       IN /\ ~JoinRaises(ctx)
          /\ \E generated_content \in {None} \cup 1..MaxText :
                paper' = [paper EXCEPT
                    !.at = "summary",
                    !.prompts = Append(@, [kind |-> "draft",
                                           section |-> step.section,
                                           summaries |-> ctx]),
                    !.generated_sections[step.section] = generated_content]
    /\ UNCHANGED topicvars
    /\ AuxUnchangedBut("paper")

\* line 193 raising inside the loop: the call ends with the TypeError
ContextRaises ==
    /\ paper.called /\ paper.at = "draft"
    /\ JoinRaises(ContextSummaries(generation_order[paper.step],
                                   paper.section_summaries))
    /\ paper' = [paper EXCEPT !.at = "raised"]
    /\ UNCHANGED topicvars
    /\ AuxUnchangedBut("paper")

\* lines 322-326: ask the LLM for the summary of the draft and store it
CondenseSection ==
    /\ paper.called /\ paper.at = "summary"
    /\ LET section_name == generation_order[paper.step].section
       IN \E section_summary \in {None} \cup 1..MaxSummary :
             paper' = [paper EXCEPT
                 !.at = IF paper.step = Len(generation_order)
                        THEN "polish" ELSE "draft",
                 !.step = IF paper.step = Len(generation_order)
                          THEN @ ELSE @ + 1,
                 !.prompts = Append(@, [kind |-> "summary",
                                        section |-> section_name,
                                        summaries |-> {}]),
                 !.section_summaries[section_name] = section_summary]
    /\ UNCHANGED topicvars
    /\ AuxUnchangedBut("paper")

\* the answers of the polish call: up to MaxBlocks blocks, each a `## ` header
\* line with no line, only blank lines or text under it
PolishHeaders == PaperSections \cup {"Other"}
PolishBlocks == [header : PolishHeaders, body : {Absent, Blank, MaxText + 1}]
PolishAnswers == SeqsUpTo(PolishBlocks, MaxBlocks)

\* _parse_polished_content, lines 250-274
RECURSIVE ParseBlocks(_, _, _)
ParseBlocks(blocks, i, sections) ==
    IF i > Len(blocks) THEN sections
    ELSE ParseBlocks(blocks, i + 1,
             IF blocks[i].body # Absent
             THEN [sections EXCEPT ![blocks[i].header] = blocks[i].body]
             ELSE sections)
_parse_polished_content(content) ==
    ParseBlocks(content, 1, [h \in PolishHeaders |-> Absent])

\* `return polished_sections if polished_sections else sections`, line 237
PolishedOrAll(polished_sections, sections) ==
    IF Keys(polished_sections) # {} THEN polished_sections
    ELSE [h \in PolishHeaders |->
             IF h \in DOMAIN sections THEN sections[h] ELSE Absent]

\* _polish_entire_paper, lines 195-237, with an answer that is a string
PolishPaper ==
    /\ paper.called /\ paper.at = "polish"
    /\ \A s \in PaperSections : paper.generated_sections[s] # None
    /\ \E polished_content \in PolishAnswers :
          paper' = [paper EXCEPT
              !.at = "returned",
              !.polished_sections = _parse_polished_content(polished_content),
              !.final = PolishedOrAll(_parse_polished_content(polished_content),
                                      paper.generated_sections)]
    /\ UNCHANGED topicvars
    /\ AuxUnchangedBut("paper")

\* _polish_entire_paper raising: a None draft in the join of
\* _format_sections_for_polish (line 248, TypeError), or the answer None in
\* content.split (line 256, AttributeError)
PolishRaises ==
    /\ paper.called /\ paper.at = "polish"
    /\ paper' = [paper EXCEPT !.at = "raised"]
    /\ UNCHANGED topicvars
    /\ AuxUnchangedBut("paper")

NextGenerate ==
    \/ DraftSection
    \/ ContextRaises
    \/ CondenseSection
    \/ PolishPaper
    \/ PolishRaises

SpecGenerate == InitGenerate /\ [][NextGenerate]_vars

\* ---- SummaryRetriever.parallel_retrieve_summaries -----------------------
\* the number of summary types (ten in self.summary_types, lines 34-38)
NumAspects == 4
\* the most hits one search returns (top_k_per_type)
MaxHits == 2

summary_types == 1..NumAspects

InitRetrieve ==
    /\ TopicIdle
    /\ AuxIdleBut("retr")
    /\ retr = [called |-> TRUE, at |-> "embed",
               future |-> [t \in summary_types |-> "none"],
               searches |-> [t \in summary_types |-> 0],
               hits |-> [t \in summary_types |-> 0],
               results |-> [t \in summary_types |-> 0],
               raised |-> [t \in summary_types |-> FALSE],
               tags |-> [t \in summary_types |-> 0],
               collected |-> <<>>,
               relevant_summaries |-> {}]

\* lines 103-114: the embedding of the requirement is there, and one task per
\* summary type is submitted to the pool
SubmitAll ==
    /\ retr.called /\ retr.at = "embed"
    /\ retr' = [retr EXCEPT !.at = "collect",
                            !.future = [t \in summary_types |-> "submitted"]]
    /\ UNCHANGED topicvars
    /\ AuxUnchangedBut("retr")

\* line 103: get_embedding returns [] on a failed request, and [][0] raises
EmbeddingRaises ==
    /\ retr.called /\ retr.at = "embed"
    /\ retr' = [retr EXCEPT !.at = "raised"]
    /\ UNCHANGED topicvars
    /\ AuxUnchangedBut("retr")

\* _search_single_summary_type in a pool thread, lines 49-86: one call of
\* db_client.search, which answers with its hits, or with [] when the
\* collection is missing or pymilvus raises; every hit becomes one result that
\* carries the thread's own summary_type (line 79); an exception inside the
\* thread is caught at line 84 and [] is returned. A thread writes nothing
\* another thread reads (MilvusClient.collections is keyed by collection).
SearchSingleSummaryType(summary_type) ==
    /\ retr.called /\ retr.at = "collect"
    /\ retr.future[summary_type] = "submitted"
    /\ \E n \in 0..MaxHits, raised \in BOOLEAN :
          /\ raised => n = 0
          /\ retr' = [retr EXCEPT !.future[summary_type] = "done",
                                  !.searches[summary_type] = @ + 1,
                                  !.hits[summary_type] = n,
                                  !.results[summary_type] = n,
                                  !.raised[summary_type] = raised,
                                  !.tags[summary_type] = summary_type]
    /\ UNCHANGED topicvars
    /\ AuxUnchangedBut("retr")

\* a collector that keeps every list
ResultsAlways(results) == TRUE

\* `if results:`, line 120
ResultsTruthy(results) == results # 0

\* a collector whose map holds the list of the latest future only
CollectResultOverwriting(summary_type) ==
    /\ retr.called /\ retr.at = "collect"
    /\ retr.future[summary_type] = "done"
    /\ retr' = [retr EXCEPT
           !.future[summary_type] = "collected",
           !.collected = Append(@, summary_type),
           !.relevant_summaries =
               IF ResultsTruthy(retr.results[summary_type])
               THEN {<<summary_type, retr.results[summary_type]>>}
               ELSE @]
    /\ UNCHANGED topicvars
    /\ AuxUnchangedBut("retr")

\* lines 116-123: the main thread takes a finished future, in the order in
\* which they finish, and keeps its list when it is not empty;
\* relevant_summaries is held as the set of its <<key, length of the list>>
CollectResult(summary_type) ==
    /\ retr.called /\ retr.at = "collect"
    /\ retr.future[summary_type] = "done"
    /\ retr' = [retr EXCEPT
           !.future[summary_type] = "collected",
           !.collected = Append(@, summary_type),
           !.relevant_summaries =
               IF ResultsTruthy(retr.results[summary_type])
               THEN @ \cup {<<summary_type, retr.results[summary_type]>>}
               ELSE @]
    /\ UNCHANGED topicvars
    /\ AuxUnchangedBut("retr")

\* lines 125-129: every future collected, the pool closed, the map returned
ReturnSummaries ==
    /\ retr.called /\ retr.at = "collect"
    /\ \A t \in summary_types : retr.future[t] = "collected"
    /\ retr' = [retr EXCEPT !.at = "returned"]
    /\ UNCHANGED topicvars
    /\ AuxUnchangedBut("retr")

NextRetrieve ==
    \/ SubmitAll
    \/ EmbeddingRaises
    \/ \E t \in summary_types : SearchSingleSummaryType(t)
    \/ \E t \in summary_types : CollectResult(t)
    \/ ReturnSummaries

SpecRetrieve == InitRetrieve /\ [][NextRetrieve]_vars

\* ---- PaperIngestor chunks and SourceTextRetriever ------------------------
\* papers whose sections are in the paper_* collections
MaxSrcPapers == 2
\* the most chunks split_text makes of one section
MaxChunks == 2
\* the distances of the top hits of step 1
MaxScore == 2

SrcPapers == 1..MaxSrcPapers
\* the two sections step 3 asks for, lines 175-212
SourceSections == {"Method", "Experiments"}
\* the summary types step 3 reads, lines 175-191
SourceAspects == <<"methodology", "expedesign", "baseline", "metric", "resultanalysis">>
AspectNames == {SourceAspects[i] : i \in DOMAIN SourceAspects}

\* the public methods of MilvusClient, db_client.py lines 9-342
MilvusClientMethods ==
    {"create_collection", "create_collections", "get_collection",
     "ensure_collection", "load_collections", "insert_data", "search",
     "search_multiple_collections", "list_collections", "drop_collection"}

\* the step-1 maps: for each summary type no key, or the first hit of its list
NoHit == [paper_id |-> None, score |-> 0]
TopHits == {NoHit} \cup [paper_id : SrcPapers, score : 1..MaxScore]
StepOneMaps == [AspectNames -> TopHits]

InitSource ==
    /\ TopicIdle
    /\ AuxIdleBut("source")
    /\ source = [called |-> TRUE, at |-> "ingest", rows |-> {},
                 chunks |-> [p \in SrcPapers, s \in SourceSections |-> <<>>],
                 relevant_summaries |-> [a \in AspectNames |-> NoHit],
                 methodology_paper_id |-> None,
                 experiment_paper_id |-> None,
                 method_content |-> <<>>,
                 experiment_content |-> <<>>,
                 selected_source_texts |-> {}]

\* _process_section_chunks, lines 384-432: section `section` of a paper is cut
\* into n chunks, and chunk i becomes the row with paper_id "<paper_id>_<i>";
\* the text of a chunk is named by its paper, section and index
ProcessSectionChunks(paper_id, section, n) ==
    /\ source.called /\ source.at = "ingest"
    /\ source.chunks[paper_id, section] = <<>>
    /\ source' = [source EXCEPT
           !.rows = @ \cup {[paper |-> paper_id, section |-> section,
                             suffix |-> i, text |-> <<paper_id, section, i>>] :
                            i \in 0..(n - 1)},
           !.chunks[paper_id, section] =
               [k \in 1..n |-> <<paper_id, section, k - 1>>]]
    /\ UNCHANGED topicvars
    /\ AuxUnchangedBut("source")

\* _find_most_relevant_paper, lines 48-73: the first hit of each listed type,
\* the smallest score winning and the earlier type winning a tie
RECURSIVE FindFrom(_, _, _, _, _)
FindFrom(relevant_summaries, types, i, best_paper_id, best_score) ==
    IF i > Len(types) THEN best_paper_id
    ELSE LET top_summary == relevant_summaries[types[i]]
         IN IF top_summary # NoHit
               /\ (best_paper_id = None \/ top_summary.score < best_score)
            THEN FindFrom(relevant_summaries, types, i + 1,
                          top_summary.paper_id, top_summary.score)
            ELSE FindFrom(relevant_summaries, types, i + 1,
                          best_paper_id, best_score)
_find_most_relevant_paper(relevant_summaries, types) ==
    FindFrom(relevant_summaries, types, 1, None, 0)

\* the rows of a section of a paper in the order of the integer after the
\* last `_` of their paper_id, lines 128-146
RECURSIVE SortedTexts(_)
SortedTexts(results) ==
    IF results = {} THEN <<>>
    ELSE LET first == CHOOSE r \in results :
                          \A q \in results : r.suffix <= q.suffix
         IN <<first.text>> \o SortedTexts(results \ {first})

\* self.db_client.query(...), line 97: MilvusClient has no such attribute
QueryRaises == "query" \notin MilvusClientMethods

\* _get_complete_section_content, lines 75-152: the AttributeError of the
\* first query is caught by `except Exception` and [] is returned
_get_complete_section_content(rows, paper_id, section_name) ==
    IF QueryRaises THEN <<>>
    ELSE SortedTexts({r \in rows : r.paper = paper_id /\ r.section = section_name})

\* select_most_relevant_source_texts, lines 154-225, for one step-1 map
SelectSourceTexts ==
    /\ source.called /\ source.at = "ingest"
    /\ \E relevant_summaries \in StepOneMaps :
          LET methodology_paper_id ==
                  _find_most_relevant_paper(relevant_summaries,
                                            SubSeq(SourceAspects, 1, 1))
              method_content ==
                  IF methodology_paper_id # None
                  THEN _get_complete_section_content(source.rows,
                           methodology_paper_id, "Method")
                  ELSE <<>>
              first == IF method_content # <<>>
                       THEN {<<methodology_paper_id, "Method", method_content>>}
                       ELSE {}
              experiment_paper_id ==
                  _find_most_relevant_paper(relevant_summaries,
                      SubSeq(SourceAspects, 2, Len(SourceAspects)))
              \* both branches of lines 192-212 fetch the section; with no
              \* pick at all the paper_id None matches no row
              experiment_content ==
                  IF experiment_paper_id # None
                  THEN _get_complete_section_content(source.rows,
                           experiment_paper_id, "Experiments")
                  ELSE <<>>
              second == IF experiment_content # <<>>
                        THEN {<<experiment_paper_id, "Experiments",
                                experiment_content>>}
                        ELSE {}
          IN source' = [source EXCEPT
                 !.at = "returned",
                 !.relevant_summaries = relevant_summaries,
                 !.methodology_paper_id = methodology_paper_id,
                 !.experiment_paper_id = experiment_paper_id,
                 !.method_content = method_content,
                 !.experiment_content = experiment_content,
                 !.selected_source_texts = first \cup second]
    /\ UNCHANGED topicvars
    /\ AuxUnchangedBut("source")

NextSource ==
    \/ \E p \in SrcPapers, s \in SourceSections, n \in 1..MaxChunks :
          ProcessSectionChunks(p, s, n)
    \/ SelectSourceTexts

SpecSource == InitSource /\ [][NextSource]_vars

\* ---- SectionConcluder.conclude_paper and save_results --------------------
\* the number of aspects of config["paper"]["conclude_aspects"]
MaxAspects == 2

Aspects == 1..MaxAspects
\* the lists of required sections an aspect of the configuration can have
RequiredChoices == {{"Introduction"}, {"Method", "Experiments"}, {"Conclusion"}}

\* the concluder after __init__ (lines 24-75) and one paper directory: the
\* configured aspects, the prompt files that were found, whether the paper
\* has a section mapping, and the canonical sections its non-empty files map to
InitConclude ==
    /\ TopicIdle
    /\ AuxIdleBut("concl")
    /\ \E required \in [Aspects -> RequiredChoices],
          prompts \in SUBSET Aspects,
          mapping \in BOOLEAN,
          files \in SUBSET PaperSections :
          concl = [called |-> TRUE, at |-> "start",
                   CONCLUDE_ASPECTS |-> required,
                   conclude_prompts |-> prompts,
                   section_mapping |-> mapping,
                   files |-> files,
                   paper_sections |-> {},
                   aspect |-> 1,
                   responses |-> [a \in Aspects |-> Absent],
                   results |-> [a \in Aspects |-> Absent],
                   summary |-> [written |-> FALSE, completed_aspects |-> {},
                                missing_aspects |-> {}]]

\* conclude_paper, lines 325-337: the mapping and the sections are there
ReadSections ==
    /\ concl.called /\ concl.at = "start"
    /\ concl.section_mapping /\ concl.files # {}
    /\ concl' = [concl EXCEPT !.at = "aspects", !.paper_sections = concl.files]
    /\ UNCHANGED topicvars
    /\ AuxUnchangedBut("concl")

\* conclude_paper returning {} at line 330 or 337, and process_directory
\* (lines 457-466) saving nothing for the paper
ConcludeNothing ==
    /\ concl.called /\ concl.at = "start"
    /\ ~concl.section_mapping \/ concl.files = {}
    /\ concl' = [concl EXCEPT !.at = "failed"]
    /\ UNCHANGED topicvars
    /\ AuxUnchangedBut("concl")

\* _build_prompt_with_sections, lines 243-277: None without the prompt of the
\* aspect or without any of its required sections
HasPrompt(aspect) ==
    /\ aspect \in concl.conclude_prompts
    /\ concl.CONCLUDE_ASPECTS[aspect] \cap concl.paper_sections # {}

AfterAspect == IF concl.aspect = MaxAspects THEN "save" ELSE "aspects"
NextAspect == IF concl.aspect = MaxAspects THEN concl.aspect ELSE concl.aspect + 1

\* a concluder that keeps whatever the LLM call returns
ResponseAlways(response) == TRUE

\* `if response:`, line 301, and `if result:`, line 342
ResponseTruthy(response) == response \notin {None, Blank}

\* one turn of the loop of lines 340-342 for an aspect that has a prompt: the
\* LLM is called, and a response that is not empty is kept
ConcludeAspect ==
    /\ concl.called /\ concl.at = "aspects"
    /\ HasPrompt(concl.aspect)
    /\ \E response \in {None, Blank} \cup 1..MaxText :
          concl' = [concl EXCEPT
              !.at = AfterAspect,
              !.aspect = NextAspect,
              !.responses[concl.aspect] = response,
              !.results[concl.aspect] =
                  IF ResponseTruthy(response) THEN response ELSE @]
    /\ UNCHANGED topicvars
    /\ AuxUnchangedBut("concl")

\* one turn of the loop for an aspect without a prompt, lines 293-294
SkipAspect ==
    /\ concl.called /\ concl.at = "aspects"
    /\ ~HasPrompt(concl.aspect)
    /\ concl' = [concl EXCEPT !.at = AfterAspect, !.aspect = NextAspect]
    /\ UNCHANGED topicvars
    /\ AuxUnchangedBut("concl")

\* process_directory, lines 459-461, and save_results, lines 348-389
SaveResults ==
    /\ concl.called /\ concl.at = "save"
    /\ Keys(concl.results) # {}
    /\ concl' = [concl EXCEPT
           !.at = "saved",
           !.summary = [written |-> TRUE,
                        completed_aspects |-> Keys(concl.results),
                        missing_aspects |-> Aspects \ Keys(concl.results)]]
    /\ UNCHANGED topicvars
    /\ AuxUnchangedBut("concl")

\* process_directory, lines 459 and 465-466: no result, nothing is written
SaveNothing ==
    /\ concl.called /\ concl.at = "save"
    /\ Keys(concl.results) = {}
    /\ concl' = [concl EXCEPT !.at = "failed"]
    /\ UNCHANGED topicvars
    /\ AuxUnchangedBut("concl")

NextConclude ==
    \/ ReadSections
    \/ ConcludeNothing
    \/ ConcludeAspect
    \/ SkipAspect
    \/ SaveResults
    \/ SaveNothing

SpecConclude == InitConclude /\ [][NextConclude]_vars

\* ---- SectionMatcher: one paper of process_directory ----------------------
\* raw section titles (the .txt files) of a paper
MaxTitles == 2
\* lines of one section-matching response
MaxMatchLines == 2

\* STANDARD_SECTIONS, line 27
STANDARD_SECTIONS == PaperSections
\* the titles a response line can name: those of the paper and one more
LineTitles == 1..(MaxTitles + 1)
\* a response line: without "->", with two "->", or "title -> target" whose
\* target is a standard section or some other word
MatchLines ==
    [arrows : {0, 2}, title : {1}, target : {"Other"}]
        \cup [arrows : {1}, title : LineTitles,
              target : STANDARD_SECTIONS \cup {"Other"}]
MatchResponses == SeqsUpTo(MatchLines, MaxMatchLines)

InitMatch ==
    /\ TopicIdle
    /\ AuxIdleBut("match")
    /\ \E titles \in SUBSET (1..MaxTitles) \ {{}} :
          match = [called |-> TRUE, at |-> "start", section_titles |-> titles,
                   failed |-> FALSE, response |-> <<>>,
                   file |-> FALSE,
                   section_mapping |-> [t \in LineTitles |-> "absent"]]

\* the loop of _parse_llm_response, lines 163-184: a line counts when it has
\* exactly one "->"; a target outside STANDARD_SECTIONS is recorded as Method
RECURSIVE ParseMatchLines(_, _, _)
ParseMatchLines(response, i, section_mapping) ==
    IF i > Len(response) THEN section_mapping
    ELSE ParseMatchLines(response, i + 1,
             IF response[i].arrows = 1
             THEN [section_mapping EXCEPT ![response[i].title] =
                      IF response[i].target \in STANDARD_SECTIONS
                      THEN response[i].target ELSE "Method"]
             ELSE section_mapping)

\* lines 186-190: every title without a mapping becomes Method
DefaultFill(section_mapping, section_titles) ==
    [t \in DOMAIN section_mapping |->
        IF t \in section_titles /\ section_mapping[t] = "absent"
        THEN "Method" ELSE section_mapping[t]]

\* _parse_llm_response, lines 150-194
_parse_llm_response(response, section_titles) ==
    DefaultFill(ParseMatchLines(response, 1, [t \in LineTitles |-> "absent"]),
                section_titles)

\* process_directory lines 345-353 with a response that is a non-empty
\* string: the parsed mapping has a key for every title and is saved
MatchPaper ==
    /\ match.called /\ match.at = "start"
    /\ \E response \in MatchResponses :
          match' = [match EXCEPT
              !.at = "done", !.response = response, !.file = TRUE,
              !.section_mapping =
                  _parse_llm_response(response, match.section_titles)]
    /\ UNCHANGED topicvars
    /\ AuxUnchangedBut("match")

\* _match_sections_with_llm lines 138-148 with a response that is None or the
\* empty string: {} is returned and process_directory (line 355) saves nothing
MatchFails ==
    /\ match.called /\ match.at = "start"
    /\ match' = [match EXCEPT !.at = "done", !.failed = TRUE]
    /\ UNCHANGED topicvars
    /\ AuxUnchangedBut("match")

NextMatch ==
    \/ MatchPaper
    \/ MatchFails

SpecMatch == InitMatch /\ [][NextMatch]_vars

\* ---- LLMClient.get_embedding inside _process_section_chunks --------------
\* the most chunks of the section being ingested
MaxTexts == 6
\* batch_size of get_embedding (32 in the code, line 133), scaled down
BatchSize == 2

\* total_batches, line 136
TotalBatches(n) == (n + BatchSize - 1) \div BatchSize
\* len(batch_texts) of the batch that starts at text i (counted from 0)
BatchLen(n, i) == IF i + BatchSize <= n THEN BatchSize ELSE n - i

\* _process_section_chunks after split_text (line 397) made n chunks; the
\* collection of the section exists or not
InitEmbed ==
    /\ TopicIdle
    /\ AuxIdleBut("embed")
    /\ \E n \in 1..MaxTexts, exists \in BOOLEAN :
          embed = [called |-> TRUE, at |-> "batch", chunks |-> n,
                   collection |-> exists, i |-> 0, requested |-> 0,
                   all_embeddings |-> 0, failed |-> 0, cause |-> "none",
                   embeddings |-> 0, rows |-> 0, success |-> FALSE]

\* one turn of the loop of get_embedding, lines 139-155: the request of the
\* batch answers 200 and its embeddings are appended
EmbedBatch ==
    /\ embed.called /\ embed.at = "batch"
    /\ embed.i < embed.chunks
    /\ embed' = [embed EXCEPT
           !.requested = @ + 1,
           !.all_embeddings = @ + BatchLen(embed.chunks, embed.i),
           !.i = @ + BatchSize]
    /\ UNCHANGED topicvars
    /\ AuxUnchangedBut("embed")

\* lines 156-162: the request answers another status, or raises; the call
\* returns [] at once
EmbedBatchFails ==
    /\ embed.called /\ embed.at = "batch"
    /\ embed.i < embed.chunks
    /\ \E cause \in {"status", "exception"} :
          embed' = [embed EXCEPT
              !.requested = @ + 1,
              !.failed = embed.requested + 1,
              !.cause = cause,
              !.embeddings = 0,
              !.at = "insert"]
    /\ UNCHANGED topicvars
    /\ AuxUnchangedBut("embed")

\* line 164: every batch answered, all_embeddings is returned
EmbedReturn ==
    /\ embed.called /\ embed.at = "batch"
    /\ embed.i >= embed.chunks
    /\ embed' = [embed EXCEPT !.embeddings = embed.all_embeddings,
                              !.at = "insert"]
    /\ UNCHANGED topicvars
    /\ AuxUnchangedBut("embed")

\* len(list(zip(chunks, embeddings))), line 407
ZipLen(chunks, embeddings) == IF chunks <= embeddings THEN chunks ELSE embeddings

\* insert_data, db_client.py lines 198-219: False without the collection,
\* True after inserting, and True without inserting for an empty list
InsertOk(collection, data) == collection

\* the rest of _process_section_chunks, lines 405-425: one row per pair of a
\* chunk and an embedding, insert_data, and its answer as the result
InsertData ==
    /\ embed.called /\ embed.at = "insert"
    /\ LET data == ZipLen(embed.chunks, embed.embeddings)
       IN embed' = [embed EXCEPT
              !.at = "done",
              !.rows = IF InsertOk(embed.collection, data) THEN data ELSE 0,
              !.success = InsertOk(embed.collection, data)]
    /\ UNCHANGED topicvars
    /\ AuxUnchangedBut("embed")

\* collection.insert raising inside insert_data, lines 217-219
InsertFails ==
    /\ embed.called /\ embed.at = "insert"
    /\ embed.collection
    /\ ZipLen(embed.chunks, embed.embeddings) > 0
    /\ embed' = [embed EXCEPT !.at = "done", !.success = FALSE]
    /\ UNCHANGED topicvars
    /\ AuxUnchangedBut("embed")

NextEmbed ==
    \/ EmbedBatch
    \/ EmbedBatchFails
    \/ EmbedReturn
    \/ InsertData
    \/ InsertFails

SpecEmbed == InitEmbed /\ [][NextEmbed]_vars

\* ---- the update stage invoked twice (command update_topics) --------------
\* the files an update stage finds: a template's topic.json, gen_topic.json as
\* reset or with one proposal, middle_topic.json empty or as an earlier round
\* without merges left it, and any response in merge_LLM_result
InitRetry ==
    /\ TopicIdle
    /\ AuxIdleBut("retry")
    /\ \E t \in OriTemplates, r \in Responses, target \in {"middle_topic", "topic"} :
         \E g \in {WithStatus(t, "pending")}
                    \cup {_save_generated_topics(WithStatus(t, "pending"), t, <<n>>) :
                              n \in 1..MaxName} :
           \E m \in {<<>>, _finalize_merge_to_middle(g)} :
              retry = [called |-> TRUE, target |-> target, n |-> 0,
                       d |-> [topic |-> t, gen_topic |-> g, middle_topic |-> m,
                              merge_LLM_result |-> r,
                              merge_opinion |-> parse_merge_suggestions(r),
                              topics_mem |-> t],
                       first |-> <<>>, ret |-> <<>>]

\* the store update_topics_from_merge(target) writes its result to
RetryTarget(d, target) == IF target = "topic" THEN d.topic ELSE d.middle_topic

\* update_topics(topic_manager, target), gen_topics.py lines 324-340, on the
\* files the previous invocation left; no generate stage runs in between
RetryUpdateTopics ==
    /\ retry.called
    /\ retry.n < 2
    /\ LET r == UpdatedStoresOf(retry.d, 0, retry.target)
           d2 == [retry.d EXCEPT !.middle_topic = r.middle, !.topic = r.topic,
                                 !.topics_mem = r.mem]
       IN retry' = [retry EXCEPT
                        !.n = @ + 1,
                        !.d = d2,
                        !.ret = Append(@, r.call.ret),
                        !.first = IF retry.n = 0
                                  THEN RetryTarget(d2, retry.target) ELSE @]
    /\ UNCHANGED topicvars
    /\ AuxUnchangedBut("retry")

NextRetry == RetryUpdateTopics

SpecRetry == InitRetry /\ [][NextRetry]_vars

\* ---- step 4: ContextBuilder.build_structured_contexts --------------------
\* the summary types of the configuration and, among them, those
\* CrossPaperAnalyzer analyses (key_analysis_types, cross_paper_analyzer.py line 23)
ContextTypes == {"methodology", "background"}
KeyAnalysisTypes == {"methodology"}

\* paper_section_summary_mapping[paper_section]: a list of distinct types
SummaryMappings ==
    {q \in SeqsUpTo(ContextTypes, MaxMapped) :
        \A i, j \in DOMAIN q : i # j => q[i] # q[j]}

\* context_info_requirements[paper_section]
Requirements == [need_summaries : BOOLEAN, need_trends : BOOLEAN, need_source : BOOLEAN]

\* step 1's map as the number of hits stored under each type; the retriever
\* stores a type only with at least one hit, so 0 is a missing key
RelevantSummaries == [ContextTypes -> 0..MaxCtxHits]

\* analyze_cross_paper_patterns, cross_paper_analyzer.py lines 130-185: an
\* insight for each key type with at least two summaries; how many patterns and
\* trends it lists depends on the summaries' topics and words
NoInsight == [present |-> FALSE, trends |-> 0, patterns |-> 0]
CrossPaperInsights(relevant_summaries) ==
    {ins \in [ContextTypes -> [present : BOOLEAN, trends : 0..MaxTrends,
                               patterns : 0..MaxTrends]] :
        \A t \in ContextTypes :
            IF t \in KeyAnalysisTypes /\ relevant_summaries[t] >= 2
            THEN ins[t].present
            ELSE ins[t] = NoInsight}

\* what select_most_relevant_source_texts can return: a section is stored only
\* with content, and no content is ever read while the query raises
SelectedSourceTexts ==
    IF QueryRaises THEN {{}}
    ELSE SUBSET [paper : SrcPapers, section : SourceSections, chunks : 1..MaxChunks]

\* a line of a context: the block it belongs to and what it is
Line(block, kind) == [block |-> block, kind |-> kind]

InitContext ==
    /\ TopicIdle
    /\ AuxIdleBut("contexts")
    /\ \E s \in PaperSections, m \in SummaryMappings, req \in Requirements,
          rs \in RelevantSummaries, sel \in SelectedSourceTexts :
         \E ins \in CrossPaperInsights(rs) :
            contexts = [called |-> TRUE, at |-> "summary", paper_section |-> s,
                        paper_section_summary_mapping |-> m,
                        requirements |-> req,
                        relevant_summaries |-> rs,
                        cross_paper_insights |-> ins,
                        selected_source_texts |-> sel,
                        context_parts |-> <<>>, context |-> <<>>]

\* _build_summary_context, lines 29-46: per mapped type found in the map a
\* header and up to three summaries
RECURSIVE SummaryLines(_, _, _)
SummaryLines(types, relevant_summaries, i) ==
    IF i > Len(types) THEN <<>>
    ELSE LET n == relevant_summaries[types[i]]
             shown == IF n > 3 THEN 3 ELSE n
             block == IF n = 0 THEN <<>>
                      ELSE <<Line("summary", "header")>>
                           \o [k \in 1..shown |-> Line("summary", "item")]
         IN block \o SummaryLines(types, relevant_summaries, i + 1)
_build_summary_context(types, relevant_summaries) ==
    SummaryLines(types, relevant_summaries, 1)

\* _build_trends_context, lines 48-77: the header whenever a mapped type has an
\* insight, and lines only for insights with trends or patterns
RECURSIVE TrendLines(_, _, _)
TrendLines(types, insights, i) ==
    IF i > Len(types) THEN <<>>
    ELSE LET insight == insights[types[i]]
             block ==
                 IF insight.present /\ (insight.trends > 0 \/ insight.patterns > 0)
                 THEN <<Line("trends", "title")>>
                      \o (IF insight.trends > 0 THEN <<Line("trends", "item")>> ELSE <<>>)
                      \o (IF insight.patterns > 0 THEN <<Line("trends", "item")>> ELSE <<>>)
                      \o <<Line("trends", "blank")>>
                 ELSE <<>>
         IN block \o TrendLines(types, insights, i + 1)
_build_trends_context(types, insights) ==
    LET relevant_insights == {i \in DOMAIN types : insights[types[i]].present}
    IN IF relevant_insights # {}
       THEN <<Line("trends", "header")>> \o TrendLines(types, insights, 1)
       ELSE <<>>

\* _build_source_text_context, lines 79-108: the header whenever the section
\* needs source text and any text was selected, and chunks of the needed section
sections_needed(paper_section) ==
    IF paper_section \in SourceSections THEN {paper_section} ELSE {}
_build_source_text_context(paper_section, selected_source_texts) ==
    LET found == {x \in selected_source_texts : x.section \in sections_needed(paper_section)}
        shown(x) == IF x.chunks > 2 THEN 2 ELSE x.chunks
        total == SetMax({0} \cup {shown(x) : x \in found})
    IN IF sections_needed(paper_section) # {} /\ selected_source_texts # {}
       THEN <<Line("source", "header")>>
            \o (IF found = {} THEN <<>>
                ELSE <<Line("source", "title")>>
                     \o [k \in 1..total |-> Line("source", "item")]
                     \o <<Line("source", "blank")>>)
       ELSE <<>>

\* lines 136-140: the summary block joins the parts when it is not empty
BuildSummaryContext ==
    /\ contexts.called /\ contexts.at = "summary"
    /\ LET summary_context ==
               _build_summary_context(contexts.paper_section_summary_mapping,
                                      contexts.relevant_summaries)
       IN contexts' = [contexts EXCEPT
              !.at = "trends",
              !.context_parts =
                  IF contexts.requirements.need_summaries /\ summary_context # <<>>
                  THEN @ \o summary_context \o <<Line("join", "blank")>>
                  ELSE @]
    /\ UNCHANGED topicvars
    /\ AuxUnchangedBut("contexts")

\* lines 143-147
BuildTrendsContext ==
    /\ contexts.called /\ contexts.at = "trends"
    /\ LET trends_context ==
               _build_trends_context(contexts.paper_section_summary_mapping,
                                     contexts.cross_paper_insights)
       IN contexts' = [contexts EXCEPT
              !.at = "source",
              !.context_parts =
                  IF contexts.requirements.need_trends /\ trends_context # <<>>
                  THEN @ \o trends_context \o <<Line("join", "blank")>>
                  ELSE @]
    /\ UNCHANGED topicvars
    /\ AuxUnchangedBut("contexts")

\* lines 150-154
BuildSourceContext ==
    /\ contexts.called /\ contexts.at = "source"
    /\ LET source_context ==
               _build_source_text_context(contexts.paper_section,
                                          contexts.selected_source_texts)
       IN contexts' = [contexts EXCEPT
              !.at = "join",
              !.context_parts =
                  IF contexts.requirements.need_source /\ source_context # <<>>
                  THEN @ \o source_context \o <<Line("join", "blank")>>
                  ELSE @]
    /\ UNCHANGED topicvars
    /\ AuxUnchangedBut("contexts")

\* line 158: paper_section_contexts[paper_section] = "\n".join(context_parts)
JoinContext ==
    /\ contexts.called /\ contexts.at = "join"
    /\ contexts' = [contexts EXCEPT !.at = "done", !.context = contexts.context_parts]
    /\ UNCHANGED topicvars
    /\ AuxUnchangedBut("contexts")

NextContext ==
    \/ BuildSummaryContext
    \/ BuildTrendsContext
    \/ BuildSourceContext
    \/ JoinContext

SpecContext == InitContext /\ [][NextContext]_vars

\* ---- properties ---------------------------------------------------------
FinalMap == upd.trace[Len(upd.trace)]
TargetStore(t) == IF t = "topic" THEN topic ELSE middle_topic
LiveBefore(T, p) == Cardinality({k \in 1..p : ~T[k].merged})

\* C1: after a renumber into middle_topic or topic, the target's ids are exactly
\* 1..N without gaps, N being the number of entries of the working map not marked
\* merged, and the k-th such entry in iteration order is the one that got id k.
C1_RenumberCompact ==
    (upd.called /\ upd.renumbered) =>
        LET tgt == TargetStore(upd.target)
            T == FinalMap
            N == LiveBefore(T, Len(T))
        IN /\ Len(tgt) = N
           /\ \A k \in 1..N : tgt[k].id = k
           /\ \A p \in DOMAIN T :
                ~T[p].merged =>
                    /\ tgt[LiveBefore(T, p)].name_zh = T[p].name_zh
                    /\ tgt[LiveBefore(T, p)].name_en = T[p].name_en

\* a renumber that had to close a gap: a merged entry precedes a live one whose
\* old id differs from its new id
C1_Witness ==
    /\ upd.called /\ upd.renumbered
    /\ \E p, q \in DOMAIN FinalMap :
          /\ p < q
          /\ FinalMap[p].merged
          /\ ~FinalMap[q].merged
          /\ FinalMap[q].id # LiveBefore(FinalMap, q)
    /\ Len(TargetStore(upd.target)) >= 2

\* the ids reached from the ids of S by one to n steps along merged_to
MergedToOf(T, S) ==
    {Get(T, i).merged_to : i \in {j \in S \cap Ids(T) : Get(T, j).merged_to # 0}}
RECURSIVE ReachN(_, _, _)
ReachN(T, S, n) ==
    IF n = 0 THEN {}
    ELSE MergedToOf(T, S) \cup ReachN(T, MergedToOf(T, S), n - 1)
MergeAcyclic(T) == \A i \in Ids(T) : i \notin ReachN(T, {i}, Len(T))

\* C2: in every store at rest, following merged_to from any id ends within N
\* steps without coming back to an id already visited; no entry is merged to itself.
C2_MergeAcyclic ==
    /\ MergeAcyclic(gen_topic)
    /\ MergeAcyclic(middle_topic)
    /\ MergeAcyclic(topic)

\* the steps of the last update that applied a suggestion of the given type
AppliedSteps(ty) ==
    {k \in DOMAIN upd.suggs :
        /\ upd.suggs[k].type = ty
        /\ upd.suggs[k].source \in Ids(upd.trace[k])
        /\ upd.suggs[k].target \in Ids(upd.trace[k])}

\* the first line of the response that states the suggestion
LineOf(resp, sg) ==
    CHOOSE i \in DOMAIN resp :
        /\ resp[i].a = sg.source /\ resp[i].b = sg.target
        /\ (resp[i].kind = "upd") = (sg.type = "update_merge")
        /\ \A j \in 1..(i - 1) :
              ~(/\ resp[j].a = sg.source /\ resp[j].b = sg.target
                /\ (resp[j].kind = "upd") = (sg.type = "update_merge"))

\* C3: suggestions are applied in the order of their lines in the response,
\* whatever their kind (stated for the applied suggestions whose two ids differ).
C3_TextualOrder ==
    upd.called =>
        \A p, q \in AppliedSteps("merge") \cup AppliedSteps("update_merge") :
            (/\ p < q
             /\ upd.suggs[p].source # upd.suggs[p].target
             /\ upd.suggs[q].source # upd.suggs[q].target)
            => LineOf(merge_LLM_result, upd.suggs[p])
                  < LineOf(merge_LLM_result, upd.suggs[q])

HasNames(T, e) == \E k \in DOMAIN T : T[k].name_zh = e.name_zh /\ T[k].name_en = e.name_en

\* C4: a swap_then_absorb(a, b) step with both ids present leaves b with the name
\* fields and aliases a had, a with the name fields b had, a merged to b and b's
\* merged_to as it was; when it is the round's only suggestion, the renumbered
\* target holds the entry with a's former names and not the one with b's.
C4_SwapCorrect ==
    upd.called =>
        \A k \in AppliedSteps("update_merge") :
            LET a == upd.suggs[k].source
                b == upd.suggs[k].target
                T == upd.trace[k]
                U == upd.trace[k + 1]
            IN /\ Get(U, b).name_zh = Get(T, a).name_zh
               /\ Get(U, b).name_en = Get(T, a).name_en
               /\ Get(U, b).aliases = Get(T, a).aliases
               /\ Get(U, a).name_zh = Get(T, b).name_zh
               /\ Get(U, a).name_en = Get(T, b).name_en
               /\ Get(U, a).merged /\ Get(U, a).merged_to = b
               /\ Get(U, b).merged_to = Get(T, b).merged_to
               /\ (Len(upd.suggs) = 1 /\ upd.renumbered /\ ~Get(T, b).merged) =>
                      HasNames(TargetStore(upd.target), Get(T, a))

\* C5: an absorb(a, b) step with both ids present leaves b's aliases equal to b's
\* previous aliases together with a's name_zh, a's name_en and every alias of a,
\* a merged to b, and b's names unchanged.
C5_AbsorbAliases ==
    upd.called =>
        \A k \in AppliedSteps("merge") :
            LET a == upd.suggs[k].source
                b == upd.suggs[k].target
                T == upd.trace[k]
                U == upd.trace[k + 1]
            IN /\ Get(U, b).aliases = Get(T, b).aliases
                                        \cup {Get(T, a).name_zh, Get(T, a).name_en}
                                        \cup Get(T, a).aliases
               /\ Get(U, a).merged /\ Get(U, a).merged_to = b
               /\ Get(U, b).name_zh = Get(T, b).name_zh
               /\ Get(U, b).name_en = Get(T, b).name_en

\* C6: once all suggestions of a round are applied, every entry marked merged
\* names, by merged_to, an entry of the same working map that is not marked merged
\* (stated for rounds none of whose suggestions has equal source and target).
C6_MergedToLive ==
    (upd.called /\ \A i \in DOMAIN upd.suggs : upd.suggs[i].source # upd.suggs[i].target) =>
        \A k \in DOMAIN FinalMap :
            FinalMap[k].merged =>
                /\ FinalMap[k].merged_to \in Ids(FinalMap)
                /\ ~Get(FinalMap, FinalMap[k].merged_to).merged

\* C7: a suggestion whose source id equals its target id is dropped: a response
\* made of such lines only leaves the working map as loaded, and every topic of
\* it is present in a renumbered target.
C7_SelfMergeDropped ==
    (/\ upd.called
     /\ \A i \in DOMAIN merge_LLM_result : merge_LLM_result[i].a = merge_LLM_result[i].b)
    => /\ FinalMap = upd.trace[1]
       /\ upd.renumbered =>
             \A k \in DOMAIN FinalMap :
                 ~upd.trace[1][k].merged => HasNames(TargetStore(upd.target), FinalMap[k])

\* C8: when the LLM call of a round's suggestion generation fails, the pass is not
\* aborted: the round's update runs, applies no suggestion and writes the round's
\* source to the round's target unchanged.
C8_FailedCallIsNoOpRound ==
    (gen.called /\ ~gen.ok) =>
        /\ pc # "exit1"
        /\ upd.called => (upd.suggs = <<>> /\ TargetStore(upd.target) = upd.trace[1])

\* C9: the pass runs the rounds (gen_topic, middle_topic), (middle_topic,
\* middle_topic), (middle_topic, topic) in this order, and each round's update
\* loads the source store its suggestions were generated from.
C9_RoundSources ==
    /\ upd.called =>
          /\ upd.target = RoundTarget(upd.round)
          /\ upd.source = RoundSource(upd.round)
          /\ gen.source = upd.source
    /\ pc = "done" => (upd.called /\ upd.round = 3)

\* C10: proposing new topics, round 1, round 2 and the suggestion generation of
\* round 3 leave the topic store as it is; only the update of round 3 overwrites it.
C10_TopicOnlyRound3 ==
    [][(pc = "extract" \/ (pc \in {"gen", "upd"} /\ round < 3) \/ pc = "gen")
          => topic' = topic]_vars

\* round 2 has renumbered into middle_topic, which now differs from topic
C10_Witness ==
    /\ upd.called /\ upd.round = 2 /\ upd.renumbered
    /\ \E k \in DOMAIN FinalMap : FinalMap[k].merged
    /\ Len(middle_topic) # Len(topic)
    /\ topic = topic_ori

\* C4 over the steps whose two ids differ: the swap itself is as stated
C4_SwapCorrectDistinct ==
    upd.called =>
        \A k \in AppliedSteps("update_merge") :
            LET a == upd.suggs[k].source
                b == upd.suggs[k].target
                T == upd.trace[k]
                U == upd.trace[k + 1]
            IN a # b =>
               /\ Get(U, b).name_zh = Get(T, a).name_zh
               /\ Get(U, b).name_en = Get(T, a).name_en
               /\ Get(U, b).aliases = Get(T, a).aliases
               /\ Get(U, a).name_zh = Get(T, b).name_zh
               /\ Get(U, a).name_en = Get(T, b).name_en
               /\ Get(U, a).merged /\ Get(U, a).merged_to = b
               /\ Get(U, b).merged_to = Get(T, b).merged_to
               /\ (Len(upd.suggs) = 1 /\ upd.renumbered /\ ~Get(T, b).merged) =>
                      HasNames(TargetStore(upd.target), Get(T, a))

NoDupIds(T) == \A j, k \in DOMAIN T : T[j].id = T[k].id => j = k

\* C11: a propose call keeps the entries gen_topic had and appends entries whose
\* ids are greater than every id of topic and of gen_topic before the call, the
\* first being the maximum plus one and each next one greater than the one before;
\* gen_topic never holds an id twice.
C11_FreshIds ==
    [][(pc = "extract" /\ pc' = "extract") =>
          LET old == gen_topic
              new == gen_topic'
              max_id == SetMax(Ids(old) \cup Ids(topic))
          IN /\ Len(new) >= Len(old)
             /\ SubSeq(new, 1, Len(old)) = old
             /\ \A k \in (Len(old) + 1)..Len(new) :
                   /\ new[k].id > max_id
                   /\ k = Len(old) + 1 => new[k].id = max_id + 1
                   /\ k > Len(old) + 1 => new[k].id > new[k - 1].id
             /\ NoDupIds(new)]_vars

\* two propose calls have appended three entries or more: one call appended two,
\* and the second call numbered after the entries of the first
C11_Witness ==
    /\ pc = "extract"
    /\ papers = 2
    /\ Len(gen_topic) >= Len(topic_ori) + 3
    /\ Len(topic) > 0

\* C12: a working map to which the absorb suggestion (a, b) has been applied twice
\* equals the map after the first application: b's aliases, a's merged flag and
\* merged_to, and everything else.
C12_AbsorbIdempotent ==
    (work.called /\ work.n = 2) => work.cur = work.once

\* the absorb was applied twice to two different entries of the map and the
\* first application changed the target's aliases
C12_Witness ==
    /\ work.called /\ work.n = 2
    /\ work.a # work.b
    /\ work.a \in Ids(work.map) /\ work.b \in Ids(work.map)
    /\ Get(work.once, work.b).aliases # Get(work.map, work.b).aliases
    /\ Get(work.map, work.a).aliases # {}

RECURSIVE FollowN(_, _, _)
FollowN(m, x, n) ==
    IF n = 0 \/ x \notin MapKeys(m) THEN x ELSE FollowN(m, m[x], n - 1)

ClaimedOrder == <<"Introduction", "RelatedWork", "Method", "Experiments", "Conclusion">>
ClaimedDependencies(s) ==
    CASE s = "Introduction" -> {}
      [] s = "RelatedWork" -> {"Introduction"}
      [] s = "Method" -> {"Introduction", "RelatedWork"}
      [] s = "Experiments" -> {"Method"}
      [] s = "Conclusion" -> {"Introduction", "RelatedWork", "Method", "Experiments"}
C15_SequentialDrafts ==
    paper.called =>
        \A i \in DOMAIN paper.prompts :
            LET p == paper.prompts[i]
                k == (i + 1) \div 2
            IN /\ k \in DOMAIN ClaimedOrder
               /\ p.section = ClaimedOrder[k]
               /\ p.kind = (IF i % 2 = 1 THEN "draft" ELSE "summary")
               /\ p.kind = "draft" =>
                     \A dep \in ClaimedDependencies(p.section) :
                         /\ paper.section_summaries[dep] \in 1..MaxSummary
                         /\ <<dep, paper.section_summaries[dep]>> \in p.summaries

\* all five sections drafted and condensed, the Conclusion prompt holding the
\* four summaries, two of them different texts
C15_Witness ==
    /\ paper.called /\ paper.at = "polish"
    /\ Len(paper.prompts) = 2 * Len(ClaimedOrder)
    /\ Cardinality(paper.prompts[2 * Len(ClaimedOrder) - 1].summaries) = 4
    /\ paper.section_summaries["Introduction"] # paper.section_summaries["Method"]

\* C16: when the polish answer leaves out a section S, the final paper holds
\* the pre-polish draft of S, so each of the five drafted sections is in the
\* final paper.
C16_PolishFallback ==
    (paper.called /\ paper.at = "returned") =>
        \A S \in PaperSections :
            /\ paper.polished_sections[S] = Absent =>
                   paper.final[S] = paper.generated_sections[S]
            /\ paper.final[S] # Absent

\* C17: no summary type is ever searched twice, and a call of step 1 that
\* returns has made exactly one search for each summary type and returns a
\* map that has a key for a type exactly when the search of that type found
\* at least one hit.
SummaryKeys == {kv[1] : kv \in retr.relevant_summaries}
C17_OneSearchPerAspect ==
    retr.called =>
        /\ \A t \in summary_types : retr.searches[t] <= 1
        /\ retr.at = "returned" =>
              \A t \in summary_types :
                  /\ retr.searches[t] = 1
                  /\ (t \in SummaryKeys) <=> (retr.hits[t] >= 1)

\* a returned call in which one search found nothing and another found hits
C17_Witness ==
    /\ retr.called /\ retr.at = "returned"
    /\ \E t, u \in summary_types :
          /\ retr.hits[t] = 0 /\ t \notin SummaryKeys
          /\ retr.hits[u] >= 1 /\ u \in SummaryKeys

\* C18: the output of step 3 has at most two paper_id keys; Method chunks are
\* only under the paper of the smallest-score methodology hit, Experiments
\* chunks only under the paper of the smallest-score hit of expedesign,
\* baseline, metric and resultanalysis; and when the two picks are the same
\* paper the output has exactly one key, holding both sections.
SelectedKeys == {t[1] : t \in source.selected_source_texts}
SmallestScorePaper(types) ==
    {source.relevant_summaries[a].paper_id :
        a \in {b \in types :
                 /\ source.relevant_summaries[b] # NoHit
                 /\ \A c \in types :
                       source.relevant_summaries[c] # NoHit =>
                           source.relevant_summaries[b].score
                               <= source.relevant_summaries[c].score}}
C18_SourceSelection ==
    (source.called /\ source.at = "returned") =>
        /\ Cardinality(SelectedKeys) <= 2
        /\ \A t \in source.selected_source_texts :
              /\ t[2] = "Method" => t[1] \in SmallestScorePaper({"methodology"})
              /\ t[2] = "Experiments" =>
                    t[1] \in SmallestScorePaper(AspectNames \ {"methodology"})
        /\ (/\ source.methodology_paper_id # None
            /\ source.methodology_paper_id = source.experiment_paper_id) =>
               /\ SelectedKeys = {source.methodology_paper_id}
               /\ {t[2] : t \in source.selected_source_texts} = SourceSections

\* C19: the chunks step 3 retrieves for a section of a paper, ordered by the
\* integer after the last `_` of paper_id, are the chunks made of that section
\* at ingestion, in the order of their index.
C19_ChunkOrder ==
    (source.called /\ source.at = "returned") =>
        /\ source.methodology_paper_id # None =>
              source.method_content =
                  source.chunks[source.methodology_paper_id, "Method"]
        /\ source.experiment_paper_id # None =>
              source.experiment_content =
                  source.chunks[source.experiment_paper_id, "Experiments"]

\* C20 as stated: once a paper is processed, an aspect has a summary and is in
\* completed_aspects exactly when at least one of its required canonical
\* sections has non-empty text, and every other aspect is in missing_aspects.
ConcludeOver == concl.called /\ concl.at \in {"saved", "failed"}
HasRequiredText(a) == concl.CONCLUDE_ASPECTS[a] \cap concl.files # {}
C20_AspectCoverage ==
    ConcludeOver =>
        \A a \in Aspects :
            /\ (a \in Keys(concl.results) /\ a \in concl.summary.completed_aspects)
                   <=> HasRequiredText(a)
            /\ ~HasRequiredText(a) => a \in concl.summary.missing_aspects

\* C20 amended: the LLM is asked for an aspect exactly when the paper has a
\* section mapping, the prompt of the aspect is loaded and at least one of its
\* required canonical sections has non-empty text; the aspect has a summary
\* exactly when that call returned a non-empty text; and when at least one
\* aspect has a summary, summary.json lists those aspects as completed and all
\* the others as missing, while it is not written otherwise.
C20_AspectCoverageAmended ==
    ConcludeOver =>
        /\ \A a \in Aspects :
              /\ (concl.responses[a] # Absent) <=>
                     (/\ concl.section_mapping
                      /\ a \in concl.conclude_prompts
                      /\ HasRequiredText(a))
              /\ (a \in Keys(concl.results)) <=> (concl.responses[a] \in 1..MaxText)
        /\ concl.summary.written <=> (Keys(concl.results) # {})
        /\ concl.summary.written =>
              /\ concl.summary.completed_aspects = Keys(concl.results)
              /\ concl.summary.missing_aspects = Aspects \ Keys(concl.results)

\* a saved paper with one aspect summarised and another one, whose required
\* section has text, left out after a failed LLM call
C20_Witness ==
    /\ concl.called /\ concl.at = "saved"
    /\ \E a, b \in Aspects :
          /\ a \in concl.summary.completed_aspects
          /\ HasRequiredText(b) /\ concl.responses[b] = None
          /\ b \in concl.summary.missing_aspects

\* C21: after section matching of a paper, whatever the LLM answered (an
\* empty, partial or malformed response included), the persisted mapping has
\* every raw title of the paper as a key, every value is one of the five
\* standard sections, and a title the response maps to no standard section is
\* recorded as Method.
MappedByResponse(t) ==
    \E i \in DOMAIN match.response :
        /\ match.response[i].arrows = 1
        /\ match.response[i].title = t
        /\ match.response[i].target \in STANDARD_SECTIONS
C21_MappingComplete ==
    (match.called /\ match.at = "done") =>
        /\ match.file
        /\ \A t \in match.section_titles :
              /\ match.section_mapping[t] \in STANDARD_SECTIONS
              /\ ~MappedByResponse(t) => match.section_mapping[t] = "Method"
        /\ \A t \in LineTitles :
              match.section_mapping[t] \in STANDARD_SECTIONS \cup {"absent"}

\* C22: gen_topics exits with code 0 only if every stage it ran succeeded: a
\* suggestion generation that failed, or an update that returned false, in
\* any round, is followed by the non-zero exit and never by a later stage or
\* by the exit with code 0.
C22_ExitCode ==
    /\ (gen.called /\ ~gen.ok) => pc = "exit1"
    /\ (upd.called /\ ~upd.ret) => pc = "exit1"

\* C23: an embedding call fails fast: when a batch fails the call returns the
\* empty list and has requested no later batch; and the section ingest around
\* a failed embedding call inserts no row and is reported as failed.
C23_EmbeddingFailFast ==
    (embed.called /\ embed.failed # 0) =>
        /\ embed.embeddings = 0
        /\ embed.requested = embed.failed
        /\ embed.at = "done" => (embed.rows = 0 /\ ~embed.success)

\* C24: renumbering walks the working map in ascending numeric id whatever
\* its insertion order: of two unmerged entries the one with the smaller old
\* id gets the smaller new id.
C24_RenumberAscending ==
    (upd.called /\ upd.renumbered) =>
        LET T == FinalMap
            R == TargetStore(upd.target)
        IN \A p, q \in DOMAIN T :
              (~T[p].merged /\ ~T[q].merged /\ T[p].id < T[q].id) =>
                  R[LiveBefore(T, p)].id < R[LiveBefore(T, q)].id

\* C25: in every topic store, after any sequence of proposals and merge
\* rounds, the aliases of a topic hold neither its name_zh nor its name_en.
NoSelfAlias(T) ==
    \A k \in DOMAIN T :
        T[k].name_zh \notin T[k].aliases /\ T[k].name_en \notin T[k].aliases
C25_NoSelfAlias ==
    /\ NoSelfAlias(gen_topic)
    /\ NoSelfAlias(middle_topic)
    /\ NoSelfAlias(topic)

\* C27: no topic name is lost by a merge round: every name_zh and name_en of
\* every topic of the store the round started from is the name or an alias of
\* some topic of the target store the round wrote.
NamesOf(T) ==
    UNION {{T[k].name_zh, T[k].name_en} \cup T[k].aliases : k \in DOMAIN T}
C27_NoNameLost ==
    (upd.called /\ upd.ret) =>
        \A k \in DOMAIN upd.trace[1] :
            {upd.trace[1][k].name_zh, upd.trace[1][k].name_en}
                \subseteq NamesOf(TargetStore(upd.target))

\* C28: whenever a merge round has completed, middle_topic is a renumbered
\* snapshot: no entry of it is marked merged and its ids are exactly 1..N, also
\* after a round without suggestions and after round 3 has written `topic`.
RenumberedSnapshot(T) ==
    /\ \A k \in DOMAIN T : ~T[k].merged
    /\ Ids(T) = 1..Len(T)
C28_MiddleIsSnapshot ==
    (upd.called /\ upd.ret) => RenumberedSnapshot(middle_topic)

\* C29: retrying a round's update stage is idempotent: a second update_topics
\* with the same target and no new suggestions in between leaves the target
\* store equal to what the first invocation produced.
C29_RetryIdempotent ==
    (retry.called /\ retry.n = 2) =>
        RetryTarget(retry.d, retry.target) = retry.first

\* C26: empty sub-contexts are omitted: a section's context holds lines of a
\* summary, trends or source block only if the block holds a content item (a
\* hit, a trend or pattern, a chunk); a block without item adds no line, not
\* even its header.
BlockLines(block) ==
    {i \in DOMAIN contexts.context : contexts.context[i].block = block}
C26_EmptyBlocksOmitted ==
    (contexts.called /\ contexts.at = "done") =>
        \A block \in {"summary", "trends", "source"} :
            BlockLines(block) # {} =>
                \E i \in BlockLines(block) : contexts.context[i].kind = "item"

\* C30: for every interleaving and completion order of the step-1 searches the
\* returned map is the same function of what the searches found: the hits of a
\* type are stored under that type's key only and carry that type as
\* summary_type, no collected search's hits are missing, and a search that
\* raised leaves the call running and the other types' hits as they are.
CollectedTypes == {retr.collected[i] : i \in DOMAIN retr.collected}
C30_OrderIndependent ==
    retr.called =>
        /\ retr.relevant_summaries =
               {<<t, retr.hits[t]>> : t \in {u \in CollectedTypes : retr.hits[u] >= 1}}
        /\ \A kv \in retr.relevant_summaries : retr.tags[kv[1]] = kv[1]
        /\ retr.at = "raised" => \A t \in summary_types : retr.searches[t] = 0
        /\ retr.at = "returned" => CollectedTypes = summary_types

\* a returned call whose futures finished out of submission order, in which
\* one search raised and a search collected after it kept its hits
C30_Witness ==
    /\ retr.called /\ retr.at = "returned"
    /\ \E i, j \in DOMAIN retr.collected :
          /\ i < j
          /\ retr.collected[i] > retr.collected[j]
          /\ retr.raised[retr.collected[i]]
          /\ <<retr.collected[j], retr.hits[retr.collected[j]]>> \in retr.relevant_summaries
    /\ \E t, u \in summary_types : t # u /\ retr.hits[t] >= 1 /\ retr.hits[u] >= 1

====
